---- MODULE Spec2Model ----
(***************************************************************************)
(* A model of the payload / task execution pipeline of stac-task:          *)
(*   src/src/stac_task/payload.py  Payload.from_href, execute, to_path     *)
(*   src/src/stac_task/task.py     Task.process_dicts and the strategies   *)
(*   src/stactask/task.py          Task.__init__, __del__, handler,        *)
(*                                 add_software_version, assign_collections*)
(***************************************************************************)
EXTENDS Integers, Sequences, FiniteSets, TLC

VARIABLES
    store,      \* the files readable by read_href: absolute location -> file
    load,       \* the outcome of the last Payload.from_href call
    proc,       \* a typed task, the batch it is given and what process_dicts returned
    stamp,      \* a batch of items and add_software_version applied once and twice
    assign,     \* a payload's items and rules, and assign_collections applied
    item_collection,    \* the payload object a task is executed on
    ret,        \* the call made on the payload and what it returned or raised
    task_object,        \* the Task object the handler constructed
    dirs,       \* the working directories on disk
    run         \* one invocation followed step by step: the stage it is in

vars == <<store, load, proc, stamp, assign, item_collection, ret, task_object,
          dirs, run>>

(***************************************************************************)
(* Hrefs.  An absolute href is <<directory, name>>, a relative href is     *)
(* <<name>>, and the absent href (None or "") is <<>>.                     *)
(***************************************************************************)
Dirs == {"/a", "/b"}
Names == {"p.json", "q.json"}
Cwd == "/a"
NoHref == <<>>
AbsHrefs == {<<d, n>> : d \in Dirs, n \in Names}
RelHrefs == {<<n>> : n \in Names}
Hrefs == AbsHrefs \cup RelHrefs

\* The file a read of href opens: a relative path is opened from the
\* process working directory.
Location(href) == IF Len(href) = 2 THEN href ELSE <<Cwd, href[1]>>

\* os.path.dirname of the start href, made absolute.
dirname(href) == Location(href)[1]

\* pystac.utils.make_absolute_href(source, start, start_is_dir=False)
make_absolute_href(source, start) ==
    IF Len(source) = 2 THEN source ELSE <<dirname(start), source[1]>>

(***************************************************************************)
(* Payload documents.                                                      *)
(***************************************************************************)
\* process.tasks maps a task name to its configuration, a dict or something
\* else; a name that is no key of it is mapped to Absent here.
TaskNames == {"myTask", "other"}
Absent == [kind |-> "absent"]
DictConfig == [kind |-> "dict"]
ListConfig == [kind |-> "list"]
EmptyProcess == [tasks |-> [n \in TaskNames |-> Absent], collections |-> <<>>]

\* An item dictionary: its "type", "id" and "collection", whether it has a
\* "stac_extensions" key and the list under it, and what
\* properties["processing:software"] holds (<<>> when it is not set).
NoSoftware == <<>>
Item(id, collection, extensions) ==
    [type |-> "Feature", id |-> id, collection |-> collection,
     has_extensions |-> TRUE, stac_extensions |-> extensions,
     software |-> NoSoftware]

LoadFeatures == {<<>>, <<Item("x1", "raw", <<>>)>>}

\* What a file can hold: nothing, a document that is no FeatureCollection,
\* or the JSON of a payload (self_href is excluded from the JSON).
MissingFile == [kind |-> "missing"]
BadJson == [kind |-> "json", type |-> "Feature", features |-> <<>>,
            process |-> EmptyProcess, href |-> NoHref]
PayloadJson == [kind : {"json"}, type : {"FeatureCollection"},
                features : LoadFeatures, process : {EmptyProcess},
                href : {NoHref} \cup Hrefs]
Files == {MissingFile, BadJson} \cup PayloadJson

NoPayload == [type |-> "none", features |-> <<>>, process |-> EmptyProcess,
              href |-> NoHref, self_href |-> NoHref]

\* Payload.model_validate_json: the decoded payload has the default self_href.
model_validate_json(file) ==
    [type |-> file.type, features |-> file.features, process |-> file.process,
     href |-> file.href, self_href |-> NoHref]

\* Payload.model_dump_json: self_href is declared with exclude=True.
model_dump_json(payload) ==
    [kind |-> "json", type |-> payload.type, features |-> payload.features,
     process |-> payload.process, href |-> payload.href]

\* `payload.href and not payload.features`
IsIndirect(payload) == payload.href # NoHref /\ payload.features = <<>>

\* Payload.from_href with three levels followed instead of one (a mutant).
from_href_follow_twice(files, href, allow_indrections) ==
    LET f1 == files[Location(href)]
        p1 == model_validate_json(f1)
        h2 == make_absolute_href(p1.href, href)
        f2 == files[Location(h2)]
        p2 == model_validate_json(f2)
        h3 == make_absolute_href(p2.href, h2)
        f3 == files[Location(h3)]
        p3 == model_validate_json(f3)
        Bad(f) == f.kind = "missing" \/ f.type # "FeatureCollection"
        Err(f, log) == [status |-> IF f.kind = "missing" THEN "ReadError"
                                   ELSE "ValidationError",
                        payload |-> NoPayload, fetched |-> log]
    IN  IF Bad(f1) THEN Err(f1, <<Location(href)>>)
        ELSE IF ~IsIndirect(p1)
        THEN [status |-> "ok", payload |-> [p1 EXCEPT !.self_href = href],
              fetched |-> <<Location(href)>>]
        ELSE IF Bad(f2) THEN Err(f2, <<Location(href), Location(h2)>>)
        ELSE IF ~IsIndirect(p2)
        THEN [status |-> "ok", payload |-> [p2 EXCEPT !.self_href = h2],
              fetched |-> <<Location(href), Location(h2)>>]
        ELSE IF Bad(f3)
        THEN Err(f3, <<Location(href), Location(h2), Location(h3)>>)
        ELSE [status |-> "ok", payload |-> [p3 EXCEPT !.self_href = h3],
              fetched |-> <<Location(href), Location(h2), Location(h3)>>]

\* Payload.from_href with self_href left at the href of the call that
\* started the load (a mutant).
from_href_keep_first(files, href, allow_indrections) ==
    LET f1 == files[Location(href)]
        p1 == model_validate_json(f1)
        h2 == make_absolute_href(p1.href, href)
        f2 == files[Location(h2)]
        p2 == model_validate_json(f2)
        Bad(f) == f.kind = "missing" \/ f.type # "FeatureCollection"
        Err(f, log) == [status |-> IF f.kind = "missing" THEN "ReadError"
                                   ELSE "ValidationError",
                        payload |-> NoPayload, fetched |-> log]
    IN  IF Bad(f1) THEN Err(f1, <<Location(href)>>)
        ELSE IF ~IsIndirect(p1)
        THEN [status |-> "ok", payload |-> [p1 EXCEPT !.self_href = href],
              fetched |-> <<Location(href)>>]
        ELSE IF Bad(f2) THEN Err(f2, <<Location(href), Location(h2)>>)
        ELSE IF IsIndirect(p2)
        THEN [status |-> "IndirectionError", payload |-> NoPayload,
              fetched |-> <<Location(href), Location(h2)>>]
        ELSE [status |-> "ok", payload |-> [p2 EXCEPT !.self_href = href],
              fetched |-> <<Location(href), Location(h2)>>]

\* Payload.from_href(href, allow_indrections).  The result carries the
\* locations fetched, in order, beside the payload or the error raised.
RECURSIVE from_href(_, _, _)
from_href(files, href, allow_indrections) ==
    LET file == files[Location(href)]
        payload == model_validate_json(file)
    IN  IF file.kind = "missing"
        THEN [status |-> "ReadError", payload |-> NoPayload,
              fetched |-> <<Location(href)>>]
        ELSE IF file.type # "FeatureCollection"
        THEN [status |-> "ValidationError", payload |-> NoPayload,
              fetched |-> <<Location(href)>>]
        ELSE IF IsIndirect(payload)
        THEN IF allow_indrections
             THEN LET target == make_absolute_href(payload.href, href)
                      inner == from_href(files, target, FALSE)
                  IN  [inner EXCEPT
                           !.fetched = <<Location(href)>> \o inner.fetched]
             ELSE [status |-> "IndirectionError", payload |-> NoPayload,
                   fetched |-> <<Location(href)>>]
        ELSE [status |-> "ok", payload |-> [payload EXCEPT !.self_href = href],
              fetched |-> <<Location(href)>>]

NoLoad == [href |-> NoHref, status |-> "none", payload |-> NoPayload,
           fetched |-> <<>>]

NoProc == [strategy |-> "none"]
NoStamp == [stage |-> "none"]
NoAssign == [stage |-> "none"]

\* The parts of the state a specification does not use.
IdleLoad == store = [h \in AbsHrefs |-> MissingFile] /\ load = NoLoad
IdleProc == proc = NoProc
IdleStamp == stamp = NoStamp
IdleAssign == assign = NoAssign

\* The working directories: one a caller may name, and the names mkdtemp
\* may make up.
GivenDir == "/work"
TmpDirs == {"/tmp/tmp1", "/tmp/tmp2"}
WorkDirs == {GivenDir} \cup TmpDirs
NoDir == [exists |-> FALSE, stac_json |-> MissingFile]

NoTask == [phase |-> "unborn", save_workdir |-> TRUE, has_workdir |-> FALSE,
           workdir |-> ""]
NoCall == [op |-> "none"]
NoRun == [pipeline |-> "none"]

IdleExec ==
    /\ item_collection = NoPayload
    /\ ret = NoCall
    /\ task_object = NoTask
    /\ run = NoRun
    /\ dirs = [d \in WorkDirs |-> NoDir]

InitLoad ==
    /\ store \in [AbsHrefs -> Files]
    /\ load = NoLoad
    /\ IdleProc /\ IdleStamp /\ IdleAssign /\ IdleExec

\* A caller loads a payload: Payload.from_href(href).
LoadFrom(href) ==
    /\ load.status = "none"
    /\ LET r == from_href(store, href, TRUE)
       IN  load' = [href |-> href, status |-> r.status, payload |-> r.payload,
                    fetched |-> r.fetched]
    /\ UNCHANGED <<store, proc, stamp, assign, item_collection, ret, task_object, dirs, run>>

\* Payload.to_path(path): the loaded payload is written to a file.
ToPath(path) ==
    /\ load.status = "ok"
    /\ store' = [store EXCEPT ![Location(path)] = model_dump_json(load.payload)]
    /\ load' = NoLoad
    /\ UNCHANGED <<proc, stamp, assign, item_collection, ret, task_object, dirs, run>>

NextLoad ==
    \/ \E href \in Hrefs : LoadFrom(href)
    \/ \E path \in Hrefs : ToPath(path)

SpecLoad == InitLoad /\ [][NextLoad]_vars

\* A stored file that decodes to an indirect payload.
IsIndirectFile(file) ==
    /\ file.kind = "json"
    /\ file.type = "FeatureCollection"
    /\ file.href # NoHref
    /\ file.features = <<>>

\* The file the load started from, and the file its pointer resolves to.
FirstFile == store[Location(load.href)]
FirstTarget == make_absolute_href(FirstFile.href, load.href)

\* C1: a load follows at most one indirection hop.  When the payload at the
\* load href is indirect and the payload at its resolved target is indirect
\* too, the load fails with the indirection error after exactly those two
\* fetches; no load, and so no successful load, fetches more than twice,
\* also when the hrefs form a cycle.
C1_AtMostOneHop ==
    load.status # "none" =>
        /\ Len(load.fetched) <= 2
        /\ (IsIndirectFile(FirstFile) /\ IsIndirectFile(store[FirstTarget]))
              => /\ load.status = "IndirectionError"
                 /\ load.fetched = <<Location(load.href), FirstTarget>>

\* A load that failed on a cycle of two distinct indirect payloads.
C1_Witness ==
    /\ load.status = "IndirectionError"
    /\ Len(load.fetched) = 2
    /\ load.fetched[1] # load.fetched[2]
    /\ make_absolute_href(store[load.fetched[2]].href, load.fetched[2])
          = load.fetched[1]

\* C2: a successful load returns the content decoded from the last location
\* fetched, with self_href naming that location: the load href itself when
\* no hop was followed, and the pointer's href made absolute against the
\* href it was loaded from when one hop was followed, never the location of
\* the intermediate pointer.
C2_SelfHrefIsByteSource ==
    load.status = "ok" =>
        LET last == load.fetched[Len(load.fetched)]
        IN  /\ model_dump_json(load.payload) = store[last]
            /\ Location(load.payload.self_href) = last
            /\ ~IsIndirectFile(FirstFile) => load.payload.self_href = load.href
            /\ IsIndirectFile(FirstFile) =>
                  /\ load.payload.self_href = FirstTarget
                  /\ Len(load.payload.self_href) = 2
                  /\ load.payload.self_href[1] =
                        (IF Len(FirstFile.href) = 2 THEN FirstFile.href[1]
                         ELSE IF Len(load.href) = 2 THEN load.href[1] ELSE Cwd)
                  /\ load.payload.self_href # Location(load.href)

\* A successful load through a relative pointer stored outside the working
\* directory, whose target has content of its own.
C2_Witness ==
    /\ load.status = "ok"
    /\ Len(load.fetched) = 2
    /\ Len(FirstFile.href) = 1
    /\ load.href[1] # Cwd
    /\ load.payload.features # <<>>
    /\ store[load.fetched[2]] # store[<<Cwd, FirstFile.href[1]>>]

(***************************************************************************)
(* Typed tasks (src/src/stac_task/task.py).  A raw item is a dictionary    *)
(* [raw |-> v]; the task's input and output models are [model |-> v].      *)
(***************************************************************************)
MaxLen == 3     \* longest batch handed to a task
MaxFan == 2     \* most outputs a one-to-many transform returns for one input

\* The dictionaries a batch is drawn from: two items and a dictionary that
\* does not have the shape of an item.
Vals == {"x", "y"}
BadDict == [Item("bad", "raw", <<>>) EXCEPT !.type = "bad"]
Dicts == {Item(v, "raw", <<>>) : v \in Vals} \cup {BadDict}
Models == {[model |-> Item(v, "raw", <<>>)] : v \in Vals}
NoModel == [model |-> BadDict]
InputShapes == {"Anything", "Item"}

SeqsUpTo(S, n) == UNION {[1..k -> S] : k \in 0..n}

\* self.input.model_validate(d): the Anything shape takes every dictionary,
\* the Item shape raises a validation error on one that is no item.
input_model_validate(shape, d) ==
    IF shape = "Anything" \/ d.type = "Feature"
    THEN [raised |-> FALSE, value |-> [model |-> d]]
    ELSE [raised |-> TRUE, value |-> NoModel]

\* output.model_dump()
output_model_dump(m) == m.model

\* The transforms a subclass may implement: each maps a model to its result
\* or raises.
RaiseOne == [raised |-> TRUE, value |-> NoModel]
RaiseMany == [raised |-> TRUE, value |-> <<>>]
OneFns == [Models -> [raised : {FALSE}, value : Models] \cup {RaiseOne}]
ManyFns == [Models -> [raised : {FALSE}, value : SeqsUpTo(Models, MaxFan)]
                        \cup {RaiseMany}]

Raised(kind) == [status |-> kind, output |-> <<>>]
Returned(out) == [status |-> "ok", output |-> out]

\* PassthroughTask.process
PassthroughTask_process(input) == Returned(input)

\* OneToManyTask.process keeping only the last item's outputs (a mutant).
OneToManyTask_process_overwrite(process_one_to_many, input) ==
    IF \E k \in 1..Len(input) : process_one_to_many[input[k]].raised
    THEN Raised("TaskError")
    ELSE IF input = <<>> THEN Returned(<<>>)
    ELSE Returned(process_one_to_many[input[Len(input)]].value)

\* The loop of OneToManyTask.process: `value` is input[k], `output` the list
\* built so far.
RECURSIVE OneToManyTask_loop(_, _, _, _)
OneToManyTask_loop(process_one_to_many, input, k, output) ==
    IF k > Len(input) THEN Returned(output)
    ELSE LET r == process_one_to_many[input[k]]
         IN  IF r.raised THEN Raised("TaskError")
             ELSE OneToManyTask_loop(process_one_to_many, input, k + 1,
                                     output \o r.value)

\* OneToManyTask.process
OneToManyTask_process(process_one_to_many, input) ==
    OneToManyTask_loop(process_one_to_many, input, 1, <<>>)

\* OneToOneTask.process inserting each output at the front (a mutant).
OneToOneTask_process_prepend(process_one_to_one, input) ==
    IF \E k \in 1..Len(input) : process_one_to_one[input[k]].raised
    THEN Raised("TaskError")
    ELSE Returned([k \in 1..Len(input) |->
                      process_one_to_one[input[Len(input) + 1 - k]].value])

\* The loop of OneToOneTask.process.
RECURSIVE OneToOneTask_loop(_, _, _, _)
OneToOneTask_loop(process_one_to_one, input, k, output) ==
    IF k > Len(input) THEN Returned(output)
    ELSE LET r == process_one_to_one[input[k]]
         IN  IF r.raised THEN Raised("TaskError")
             ELSE OneToOneTask_loop(process_one_to_one, input, k + 1,
                                    Append(output, r.value))

\* OneToOneTask.process
OneToOneTask_process(process_one_to_one, input) ==
    OneToOneTask_loop(process_one_to_one, input, 1, <<>>)

\* task.process(input), dispatched on the class of the task.
Task_process(task, input) ==
    CASE task.strategy = "passthrough" -> PassthroughTask_process(input)
      [] task.strategy = "one_to_one" -> OneToOneTask_process(task.fn, input)
      [] task.strategy = "one_to_many" -> OneToManyTask_process(task.fn, input)

\* Task.process_dicts: validate every dictionary, process, dump every output.
Task_process_dicts(task, input) ==
    IF \E k \in 1..Len(input) :
           input_model_validate(task.input, input[k]).raised
    THEN Raised("ValidationError")
    ELSE LET models == [k \in 1..Len(input) |->
                           input_model_validate(task.input, input[k]).value]
             result == Task_process(task, models)
         IN  IF result.status # "ok" THEN result
             ELSE Returned([k \in 1..Len(result.output) |->
                               output_model_dump(result.output[k])])

\* A transform is defined on the models of the items; on the model of any
\* other dictionary, which only the Anything shape lets through, it raises.
OnModels(fn, raise) ==
    [m \in Models \cup {NoModel} |-> IF m \in Models THEN fn[m] ELSE raise]

TypedTasks ==
    [strategy : {"passthrough"}, input : {"Anything"}, fn : {<<>>}]
        \cup [strategy : {"one_to_one"}, input : InputShapes,
               fn : {OnModels(fn, RaiseOne) : fn \in OneFns}]
        \cup [strategy : {"one_to_many"}, input : InputShapes,
               fn : {OnModels(fn, RaiseMany) : fn \in ManyFns}]

InitProc ==
    /\ IdleLoad /\ IdleStamp /\ IdleAssign /\ IdleExec
    /\ \E task \in TypedTasks, input \in SeqsUpTo(Dicts, MaxLen) :
          proc = [strategy |-> task.strategy, task |-> task, input |-> input,
                  status |-> "called", output |-> <<>>]

\* task.process_dicts(input) runs to its return or to the error it raises.
ProcessDicts ==
    /\ proc.strategy # "none"
    /\ proc.status = "called"
    /\ LET r == Task_process_dicts(proc.task, proc.input)
       IN  proc' = [proc EXCEPT !.status = r.status, !.output = r.output]
    /\ UNCHANGED <<store, load, stamp, assign, item_collection, ret, task_object, dirs, run>>

NextProc == ProcessDicts

SpecProc == InitProc /\ [][NextProc]_vars

\* The result of the task's per-item transform on the k-th input dictionary.
TransformOf(k) ==
    proc.task.fn[input_model_validate(proc.task.input, proc.input[k]).value]

\* No input fails validation and no per-item transform raises.
NoItemFails ==
    \A k \in 1..Len(proc.input) :
        /\ ~input_model_validate(proc.task.input, proc.input[k]).raised
        /\ ~TransformOf(k).raised

\* C8: OneToOne preserves length and order.  On every batch on which no
\* item fails, the call succeeds, the output is as long as the input and
\* its i-th element is the transform of the i-th input.
C8_OneToOneLengthAndOrder ==
    (proc.strategy = "one_to_one" /\ proc.status # "called" /\ NoItemFails) =>
        /\ proc.status = "ok"
        /\ Len(proc.output) = Len(proc.input)
        /\ \A i \in 1..Len(proc.input) :
              proc.output[i] = output_model_dump(TransformOf(i).value)

\* A one-to-one batch of full length whose outputs are not all alike.
C8_Witness ==
    /\ proc.strategy = "one_to_one"
    /\ proc.status = "ok"
    /\ Len(proc.input) = MaxLen
    /\ proc.output[1] # proc.output[MaxLen]
    /\ proc.output # proc.input

\* The number of outputs the first k inputs contribute.
RECURSIVE Offset(_)
Offset(k) == IF k = 0 THEN 0 ELSE Offset(k - 1) + Len(TransformOf(k).value)

\* C9: OneToMany returns the concatenation, in input order, of the per-item
\* results: the outputs of input i occupy the positions after those of the
\* inputs before it, an empty result contributes nothing, and the length of
\* the output is the sum of the lengths of the per-item results.
C9_OneToManyConcatenation ==
    (proc.strategy = "one_to_many" /\ proc.status # "called" /\ NoItemFails) =>
        /\ proc.status = "ok"
        /\ Len(proc.output) = Offset(Len(proc.input))
        /\ \A i \in 1..Len(proc.input) :
              \A j \in 1..Len(TransformOf(i).value) :
                  proc.output[Offset(i - 1) + j] =
                      output_model_dump(TransformOf(i).value[j])

\* A one-to-many batch in which an item between two others contributes
\* nothing and the others contribute different outputs.
C9_Witness ==
    /\ proc.strategy = "one_to_many"
    /\ proc.status = "ok"
    /\ Len(proc.input) = 3
    /\ TransformOf(2).value = <<>>
    /\ Len(TransformOf(1).value) = 2
    /\ Len(proc.output) = 4
    /\ proc.output[1] # proc.output[2]

(***************************************************************************)
(* Provenance stamping and collection reassignment (src/stactask/task.py). *)
(***************************************************************************)
MaxItems == 2   \* most items in a payload
MaxExt == 2     \* longest stac_extensions list of an input item
MaxRules == 2   \* most rules in upload_options.collections

processing_ext ==
    "https://stac-extensions.github.io/processing/v1.1.0/schema.json"
Exts == {"eo", processing_ext}
Ids == {"x1", "x2"}

\* A task class: its name and version attributes.
TaskClasses == {[name |-> "myTask", version |-> "0.1.0"],
                [name |-> "other", version |-> "1.2.0"]}

Range(seq) == {seq[k] : k \in 1..Len(seq)}

\* list(set(xs)): the distinct elements of xs, in an order the set decides.
ListOfSet(xs) ==
    {p \in [1..Cardinality(Range(xs)) -> Range(xs)] :
        \A i, j \in 1..Cardinality(Range(xs)) : i # j => p[i] # p[j]}

\* The body of the loop of add_software_version without the
\* deduplication (a mutant).
stamp_item_append_only(cls, item) ==
    {[item EXCEPT !.stac_extensions = Append(item.stac_extensions, processing_ext),
                  !.software = <<cls.name, cls.version>>]}

\* The body of the loop of add_software_version without the property
\* (a mutant).
stamp_item_no_software(cls, item) ==
    {[item EXCEPT !.stac_extensions = exts] :
        exts \in ListOfSet(Append(item.stac_extensions, processing_ext))}

\* The body of the loop of add_software_version: what the item can be
\* afterwards.
stamp_item(cls, item) ==
    {[item EXCEPT !.stac_extensions = exts,
                  !.software = <<cls.name, cls.version>>] :
        exts \in ListOfSet(Append(item.stac_extensions, processing_ext))}

\* The loop of add_software_version from item k on.  The items are updated
\* in place, so the ones before an item without "stac_extensions" stay
\* stamped when the KeyError is raised.
RECURSIVE add_software_version_loop(_, _, _)
add_software_version_loop(cls, items, k) ==
    IF k > Len(items) THEN {[raised |-> FALSE, items |-> items]}
    ELSE IF ~items[k].has_extensions THEN {[raised |-> TRUE, items |-> items]}
    ELSE UNION {add_software_version_loop(cls, [items EXCEPT ![k] = it], k + 1) :
                   it \in stamp_item(cls, items[k])}

\* Task.add_software_version(items): the outcomes it can have.
add_software_version(cls, items) == add_software_version_loop(cls, items, 1)

\* A JSONPath expression of a rule, by what it selects on: the id, the
\* collection, or every item.
Exprs == [field : {"id"}, value : Ids]
            \cup [field : {"collection"}, value : {"raw", "collection-A"}]
            \cup {[field |-> "any", value |-> ""]}

\* stac_jsonpath_match(item, expr)
stac_jsonpath_match(item, expr) ==
    CASE expr.field = "id" -> item.id = expr.value
      [] expr.field = "collection" -> item.collection = expr.value
      [] expr.field = "any" -> TRUE

\* The rules of upload_options["collections"]: a dict from collection name
\* to expression, in declaration order, so no name occurs twice.
RuleColls == {"collection-A", "collection-B"}
RuleLists ==
    {rules \in SeqsUpTo([coll : RuleColls, expr : Exprs], MaxRules) :
        \A i, j \in 1..Len(rules) : i # j => rules[i].coll # rules[j].coll}

\* The inner iterations of assign_collections for one item, from rule j on.
RECURSIVE assign_item(_, _, _)
assign_item(item, rules, j) ==
    IF j > Len(rules) THEN item
    ELSE assign_item(IF stac_jsonpath_match(item, rules[j].expr)
                     THEN [item EXCEPT !.collection = rules[j].coll]
                     ELSE item,
                     rules, j + 1)

\* Task.assign_collections: itertools.product(features, rules) visits, for
\* each item in turn, every rule in declaration order.
assign_collections(features, rules) ==
    [k \in 1..Len(features) |-> assign_item(features[k], rules, 1)]

ExtLists == SeqsUpTo(Exts, MaxExt)

\* The items a stamping call is given: with any extension list, or none.
StampItems ==
    {Item("x1", "raw", exts) : exts \in ExtLists}
        \cup {[Item("x1", "raw", <<>>) EXCEPT !.has_extensions = FALSE]}

InitStamp ==
    /\ IdleLoad /\ IdleProc /\ IdleAssign /\ IdleExec
    /\ \E cls \in TaskClasses, items \in SeqsUpTo(StampItems, MaxItems) :
          stamp = [stage |-> "items", cls |-> cls, input |-> items,
                   once |-> <<>>, twice |-> <<>>]

\* cls.add_software_version(items)
StampOnce ==
    /\ stamp.stage = "items"
    /\ \E r \in add_software_version(stamp.cls, stamp.input) :
          stamp' = [stamp EXCEPT
                       !.stage = IF r.raised THEN "KeyError" ELSE "once",
                       !.once = r.items]
    /\ UNCHANGED <<store, load, proc, assign, item_collection, ret, task_object, dirs, run>>

\* cls.add_software_version(items) on the items an earlier call returned.
StampAgain ==
    /\ stamp.stage = "once"
    /\ \E r \in add_software_version(stamp.cls, stamp.once) :
          stamp' = [stamp EXCEPT !.stage = "twice", !.twice = r.items]
    /\ UNCHANGED <<store, load, proc, assign, item_collection, ret, task_object, dirs, run>>

NextStamp == StampOnce \/ StampAgain

SpecStamp == InitStamp /\ [][NextStamp]_vars

\* How often x occurs in the list xs.
Count(xs, x) == Cardinality({k \in 1..Len(xs) : xs[k] = x})

\* C7 as stated: stamping twice yields, for every item, the same extension
\* list as stamping once.
C7_SameListTwice ==
    stamp.stage = "twice" =>
        \A k \in 1..Len(stamp.once) :
            stamp.twice[k].stac_extensions = stamp.once[k].stac_extensions

\* C7 amended: stamping twice yields, for every item, the same extension
\* entries as stamping once, each exactly once: the marker is there once and
\* no other entry is added, removed or duplicated.  The order of the list
\* is not part of the guarantee.
C7_SameEntriesTwice ==
    stamp.stage = "twice" =>
        \A k \in 1..Len(stamp.once) :
            LET once == stamp.once[k].stac_extensions
                twice == stamp.twice[k].stac_extensions
            IN  /\ Len(stamp.twice) = Len(stamp.once)
                /\ \A e \in Exts : Count(twice, e) = Count(once, e)
                /\ Range(twice) \subseteq Exts
                /\ Count(twice, processing_ext) = 1
                /\ \A e \in Range(stamp.input[k].stac_extensions) :
                       Count(twice, e) = 1
                /\ Range(twice) =
                       Range(stamp.input[k].stac_extensions) \cup {processing_ext}

\* Two stampings of an item that came with a duplicated entry besides the
\* marker.
C7_Witness ==
    /\ stamp.stage = "twice"
    /\ Len(stamp.input) >= 1
    /\ stamp.input[1].stac_extensions = <<"eo", "eo">>
    /\ Len(stamp.twice[1].stac_extensions) = 2

AssignItems == {Item(id, coll, <<>>) : id \in Ids, coll \in {"raw", "collection-A"}}

InitAssign ==
    /\ IdleLoad /\ IdleProc /\ IdleStamp /\ IdleExec
    /\ \E features \in SeqsUpTo(AssignItems, MaxItems), rules \in RuleLists :
          assign = [stage |-> "called", features |-> features, rules |-> rules,
                    result |-> <<>>]

\* task.assign_collections()
AssignCollections ==
    /\ assign.stage = "called"
    /\ assign' = [assign EXCEPT
                     !.stage = "done",
                     !.result = assign_collections(assign.features, assign.rules)]
    /\ UNCHANGED <<store, load, proc, stamp, item_collection, ret, task_object, dirs, run>>

NextAssign == AssignCollections

SpecAssign == InitAssign /\ [][NextAssign]_vars

\* The rules that match the item as it was before the reassignment.
Matching(item, rules) ==
    {j \in 1..Len(rules) : stac_jsonpath_match(item, rules[j].expr)}

First(S) == CHOOSE j \in S : \A i \in S : j <= i

\* C5: the first matching rule wins.  Every item is given the collection of
\* the earliest-declared rule that matches it, and an item no rule matches
\* keeps its collection.
C5_FirstMatchWins ==
    assign.stage = "done" =>
        \A k \in 1..Len(assign.features) :
            LET item == assign.features[k]
                M == Matching(item, assign.rules)
            IN  assign.result[k].collection =
                    (IF M = {} THEN item.collection
                     ELSE assign.rules[First(M)].coll)

(***************************************************************************)
(* Executing a task on a payload: Payload.execute                          *)
(* (src/src/stac_task/payload.py) and Task.handler (src/stactask/task.py). *)
(***************************************************************************)
None == "None"

\* The typed task classes a caller may pass to execute: the passthrough
\* task, an item task that relabels every item, a one-to-many task that
\* doubles the item x1 and drops every other, and a task that always raises.
ExecTaskClasses == {"PassthroughTask", "RelabelTask", "SplitTask", "FailingTask"}

\* stac_task.get_task(name): "myTask" is registered, no other name is.
get_task(name) ==
    IF name = "myTask" THEN [raised |-> FALSE, value |-> "PassthroughTask"]
    ELSE [raised |-> TRUE, value |-> None]

ModelsOf(features) == {[model |-> features[k]] : k \in 1..Len(features)}

Relabel(m) ==
    [raised |-> FALSE,
     value |-> [model |-> [m.model EXCEPT !.collection = "collection-B"]]]

Split(m) ==
    [raised |-> FALSE,
     value |-> IF m.model.id = "x1"
               THEN <<m, [model |-> [m.model EXCEPT !.id = "x2"]]>>
               ELSE <<>>]

\* task_class(**config), with task.payload_href assigned.
construct(task_class, features, payload_href) ==
    CASE task_class = "PassthroughTask" ->
            [strategy |-> "passthrough", input |-> "Anything", fn |-> <<>>,
             payload_href |-> payload_href]
      [] task_class = "RelabelTask" ->
            [strategy |-> "one_to_one", input |-> "Item",
             fn |-> [m \in ModelsOf(features) |-> Relabel(m)],
             payload_href |-> payload_href]
      [] task_class = "SplitTask" ->
            [strategy |-> "one_to_many", input |-> "Item",
             fn |-> [m \in ModelsOf(features) |-> Split(m)],
             payload_href |-> payload_href]
      [] task_class = "FailingTask" ->
            [strategy |-> "one_to_one", input |-> "Anything",
             fn |-> [m \in ModelsOf(features) |-> RaiseOne],
             payload_href |-> payload_href]

\* self.model_copy(deep=True, update={"features": features}): a new payload.
model_copy(self, features) == [self EXCEPT !.features = features]

NotConfigured == "ValueError: task is not configured in payload"
NotADict == "ValueError: task config is not a dict"

\* Payload.execute with the features assigned to the payload itself, which
\* is then returned (a mutant).
execute_in_place(self, name, task_class) ==
    LET config == self.process.tasks[name]
        found == IF task_class = None THEN get_task(name)
                 ELSE [raised |-> FALSE, value |-> task_class]
        lookup == IF task_class = None THEN <<"get_task">> ELSE <<>>
        result == Task_process_dicts(
                      construct(found.value, self.features, self.self_href),
                      self.features)
        Fail(status, events) ==
            [status |-> status, events |-> events, self_after |-> self,
             returned |-> NoPayload, same_object |-> FALSE]
    IN  IF config.kind = "absent" THEN Fail(NotConfigured, <<>>)
        ELSE IF config.kind # "dict" THEN Fail(NotADict, <<>>)
        ELSE IF found.raised THEN Fail("UnknownTaskError", lookup)
        ELSE IF result.status # "ok"
        THEN Fail(result.status, lookup \o <<"construct", "process_dicts">>)
        ELSE [status |-> "ok",
              events |-> lookup \o <<"construct", "process_dicts">>,
              self_after |-> [self EXCEPT !.features = result.output],
              returned |-> [self EXCEPT !.features = result.output],
              same_object |-> TRUE]

\* Payload.execute with the task looked up before the name is checked
\* against process.tasks (a mutant).
execute_lookup_first(self, name, task_class) ==
    LET config == self.process.tasks[name]
        found == IF task_class = None THEN get_task(name)
                 ELSE [raised |-> FALSE, value |-> task_class]
        lookup == IF task_class = None THEN <<"get_task">> ELSE <<>>
        result == Task_process_dicts(
                      construct(found.value, self.features, self.self_href),
                      self.features)
        Fail(status, events) ==
            [status |-> status, events |-> events, self_after |-> self,
             returned |-> NoPayload, same_object |-> FALSE]
    IN  IF found.raised THEN Fail("UnknownTaskError", lookup)
        ELSE IF config.kind = "absent"
        THEN Fail(NotConfigured, lookup \o <<"construct">>)
        ELSE IF config.kind # "dict" THEN Fail(NotADict, lookup \o <<"construct">>)
        ELSE IF result.status # "ok"
        THEN Fail(result.status, lookup \o <<"construct", "process_dicts">>)
        ELSE [status |-> "ok",
              events |-> lookup \o <<"construct", "process_dicts">>,
              self_after |-> self,
              returned |-> model_copy(self, result.output),
              same_object |-> FALSE]

\* Payload.execute(name, task_class): what it raises or returns, the steps
\* it took, and the payload it was called on as it is afterwards.
execute(self, name, task_class) ==
    LET config == self.process.tasks[name]
        found == IF task_class = None THEN get_task(name)
                 ELSE [raised |-> FALSE, value |-> task_class]
        lookup == IF task_class = None THEN <<"get_task">> ELSE <<>>
        result == Task_process_dicts(
                      construct(found.value, self.features, self.self_href),
                      self.features)
        Fail(status, events) ==
            [status |-> status, events |-> events, self_after |-> self,
             returned |-> NoPayload, same_object |-> FALSE]
    IN  IF config.kind = "absent" THEN Fail(NotConfigured, <<>>)
        ELSE IF config.kind # "dict" THEN Fail(NotADict, <<>>)
        ELSE IF found.raised THEN Fail("UnknownTaskError", lookup)
        ELSE IF result.status # "ok"
        THEN Fail(result.status, lookup \o <<"construct", "process_dicts">>)
        ELSE [status |-> "ok",
              events |-> lookup \o <<"construct", "process_dicts">>,
              self_after |-> self,
              returned |-> model_copy(self, result.output),
              same_object |-> FALSE]

\* The keyword arguments of the Task constructor that the handler passes on.
Kwargs == [workdir : {None, GivenDir}, save_workdir : BOOLEAN,
           skip_validation : BOOLEAN]

\* Task.__del__ removing the work directory whatever _save_workdir says
\* (a mutant).
Task_del_always(self, fs) ==
    IF self.has_workdir THEN [fs EXCEPT ![self.workdir] = NoDir] ELSE fs

\* Task.__del__: rmtree of the work directory unless _save_workdir is set.
Task_del(self, fs) ==
    IF ~self.save_workdir /\ self.has_workdir
    THEN [fs EXCEPT ![self.workdir] = NoDir]
    ELSE fs

\* Task.__init__: the task objects it can leave and the directories on disk
\* afterwards.  `valid` is what cls.validate(payload) returns; mkdtemp makes
\* up the name of a directory that does not exist.
Task_init(kwargs, valid, fs) ==
    IF ~kwargs.skip_validation /\ ~valid
    THEN {[raised |-> TRUE,
           task |-> [phase |-> "live", save_workdir |-> TRUE,
                     has_workdir |-> FALSE, workdir |-> ""],
           dirs |-> fs]}
    ELSE IF kwargs.workdir = None
    THEN {[raised |-> FALSE,
           task |-> [phase |-> "live", save_workdir |-> kwargs.save_workdir,
                     has_workdir |-> TRUE, workdir |-> d],
           dirs |-> [fs EXCEPT ![d] = [exists |-> TRUE,
                                       stac_json |-> MissingFile]]] :
             d \in {t \in TmpDirs : ~fs[t].exists}}
    ELSE {[raised |-> FALSE,
           task |-> [phase |-> "live", save_workdir |-> kwargs.save_workdir,
                     has_workdir |-> TRUE, workdir |-> kwargs.workdir],
           dirs |-> [fs EXCEPT ![kwargs.workdir].exists = TRUE]]}

\* json.dumps(task._item_collection)
json_dumps(collection) ==
    [kind |-> "json", type |-> collection.type, features |-> collection.features,
     process |-> collection.process, href |-> collection.href]

\* What the task's process method does: return the payload's own item
\* dictionaries, return copies of them (create_item_from_item), or raise.
Behaviours == {"same", "copies", "raise"}

\* The try block of Task.handler.
handler_try(cls, collection, behaviour, self, fs) ==
    LET Fail(status, events, after) ==
            [status |-> status, events |-> events, self_after |-> after,
             returned |-> NoPayload, same_object |-> FALSE, task |-> self,
             dirs |-> fs]
    IN  IF collection.process.tasks[cls.name].kind = "list"
        THEN {Fail("TypeError", <<"__init__", "process">>, collection)}
        ELSE IF behaviour = "raise"
        THEN {Fail("TaskError", <<"__init__", "process">>, collection)}
        ELSE {IF r.raised
              THEN Fail("KeyError",
                        <<"__init__", "process", "add_software_version">>,
                        IF behaviour = "same"
                        THEN [collection EXCEPT !.features = r.items]
                        ELSE collection)
              ELSE LET after == [collection EXCEPT !.features =
                                    assign_collections(r.items,
                                        collection.process.collections)]
                   IN  [status |-> "ok",
                        events |-> <<"__init__", "process", "add_software_version",
                                     "assign_collections", "write", "return">>,
                        self_after |-> after, returned |-> after,
                        same_object |-> TRUE, task |-> self,
                        dirs |-> [fs EXCEPT ![self.workdir].stac_json =
                                     json_dumps(after)]] :
                r \in add_software_version(cls, collection.features)}

\* Task.handler(payload, **kwargs): the outcomes it can have.
handler(cls, collection, kwargs, valid, behaviour, fs) ==
    UNION {IF c.raised
           THEN {[status |-> "FailedValidation", events |-> <<"__init__">>,
                  self_after |-> collection, returned |-> NoPayload,
                  same_object |-> FALSE, task |-> c.task, dirs |-> c.dirs]}
           ELSE handler_try(cls, collection, behaviour, c.task, c.dirs) :
              c \in Task_init(kwargs, valid, fs)}

NoExtensions == [Item("x2", "collection-A", <<>>) EXCEPT !.has_extensions = FALSE]
ExecItems == {Item("x1", "raw", <<>>),
              Item("x2", "raw", <<processing_ext, "eo", processing_ext>>),
              NoExtensions, BadDict}
ExecTasks == {[n \in TaskNames |-> DictConfig],
              [n \in TaskNames |-> IF n = "other" THEN DictConfig ELSE Absent],
              [n \in TaskNames |-> IF n = "myTask" THEN ListConfig ELSE Absent]}
ExecRules == {<<>>,
              <<[coll |-> "collection-A", expr |-> [field |-> "id", value |-> "x1"]]>>}
ExecHrefs == {<<NoHref, NoHref>>, <<<<"q.json">>, <<"/b", "p.json">>>>}

Init ==
    /\ IdleLoad /\ IdleProc /\ IdleStamp /\ IdleAssign
    /\ \E features \in SeqsUpTo(ExecItems, MaxItems), tasks \in ExecTasks,
          rules \in ExecRules, hrefs \in ExecHrefs :
          item_collection =
              [type |-> "FeatureCollection", features |-> features,
               process |-> [tasks |-> tasks, collections |-> rules],
               href |-> hrefs[1], self_href |-> hrefs[2]]
    /\ ret = NoCall
    /\ task_object = NoTask
    /\ run = NoRun
    /\ \E there \in BOOLEAN :
          dirs = [d \in WorkDirs |->
                     IF d = GivenDir /\ there
                     THEN [exists |-> TRUE, stac_json |-> MissingFile]
                     ELSE NoDir]

\* A caller runs payload.execute(name, task_class).  The typed task lives
\* for the call only.
Execute(name, task_class) ==
    /\ ret.op = "none"
    /\ item_collection.type = "FeatureCollection"
    /\ LET r == execute(item_collection, name, task_class)
       IN  /\ item_collection' = r.self_after
           /\ ret' = [op |-> "execute", status |-> r.status, name |-> name,
                      before |-> item_collection, returned |-> r.returned,
                      same_object |-> r.same_object, events |-> r.events,
                      task_class |-> task_class, version |-> "",
                      save_workdir |-> FALSE]
    /\ UNCHANGED <<store, load, proc, stamp, assign, task_object, dirs, run>>

\* A caller runs cls.handler(payload, **kwargs).  The task it constructed
\* is left to be finalised.
Handler(cls, kwargs, valid, behaviour) ==
    /\ ret.op = "none"
    /\ item_collection.type = "FeatureCollection"
    /\ \E r \in handler(cls, item_collection, kwargs, valid, behaviour, dirs) :
          /\ item_collection' = r.self_after
          /\ ret' = [op |-> "handler", status |-> r.status, name |-> cls.name,
                     before |-> item_collection, returned |-> r.returned,
                     same_object |-> r.same_object, events |-> r.events,
                     task_class |-> "Task", version |-> cls.version,
                     save_workdir |-> kwargs.save_workdir]
          /\ task_object' = r.task
          /\ dirs' = r.dirs
    /\ UNCHANGED <<store, load, proc, stamp, assign, run>>

\* The garbage collector finalises the task: Task.__del__.
TaskDel ==
    /\ task_object.phase = "live"
    /\ task_object' = [task_object EXCEPT !.phase = "finalised"]
    /\ dirs' = Task_del(task_object, dirs)
    /\ UNCHANGED <<store, load, proc, stamp, assign, item_collection, ret, run>>

Next ==
    \/ \E name \in TaskNames, task_class \in ExecTaskClasses \cup {None} :
          Execute(name, task_class)
    \/ \E cls \in TaskClasses, kwargs \in Kwargs, valid \in BOOLEAN,
          behaviour \in Behaviours :
          Handler(cls, kwargs, valid, behaviour)
    \/ TaskDel

Spec == Init /\ [][Next]_vars

\* C3: execute with a task name that is no key of process.tasks raises the
\* configuration error before any task is looked up, constructed or run,
\* and leaves the payload exactly as it was.
C3_UnconfiguredTaskRejected ==
    (ret.op = "execute" /\ ret.before.process.tasks[ret.name].kind = "absent") =>
        /\ ret.status = NotConfigured
        /\ ret.events = <<>>
        /\ ret.returned = NoPayload
        /\ item_collection = ret.before

\* An execute of a registered task, under a name the payload does not
\* configure, on a payload that has items.
C3_Witness ==
    /\ ret.op = "execute"
    /\ ret.before.process.tasks[ret.name].kind = "absent"
    /\ ret.name = "myTask"
    /\ ret.task_class = None
    /\ ret.before.features # <<>>
    /\ ret.before.process.tasks["other"].kind = "dict"

\* The returned payload differs from the payload the call was made on in
\* its features only.
OnlyFeaturesReplaced ==
    /\ ret.returned.type = ret.before.type
    /\ ret.returned.process = ret.before.process
    /\ ret.returned.href = ret.before.href
    /\ ret.returned.self_href = ret.before.self_href

StageOrder == <<"Constructed", "Decoding", "Processing", "Encoding",
                "ProvenanceStamped", "CollectionAssigned", "Done">>

NoTypedTask == [strategy |-> "none"]
NoClass == [name |-> "", version |-> ""]

\* An invocation that has begun, before it has entered any stage.
NewRun(pipeline, name, task_class, cls, self) ==
    [pipeline |-> pipeline, name |-> name, task_class |-> task_class,
     cls |-> cls, stage |-> "Called", trace |-> <<>>, error |-> "",
     task |-> NoTypedTask, models |-> <<>>, outputs |-> <<>>, items |-> <<>>,
     aliased |-> FALSE, before |-> self, returned |-> NoPayload]

\* The invocation enters a stage; it enters Failed when an error is raised.
Advance(r, stage) == [r EXCEPT !.stage = stage, !.trace = Append(@, stage)]
Fail(r, error) == [Advance(r, "Failed") EXCEPT !.error = error]

\* Payload.execute up to the construction of the task (lines 90-98).
execute_call(self, name, task_class) ==
    LET r == NewRun("execute", name, task_class, NoClass, self)
        config == self.process.tasks[name]
        found == IF task_class = None THEN get_task(name)
                 ELSE [raised |-> FALSE, value |-> task_class]
    IN  IF config.kind = "absent" THEN Fail(r, NotConfigured)
        ELSE IF config.kind # "dict" THEN Fail(r, NotADict)
        ELSE IF found.raised THEN Fail(r, "UnknownTaskError")
        ELSE [Advance(r, "Constructed") EXCEPT
                 !.task = construct(found.value, self.features, self.self_href)]

\* The list comprehension of Task.process_dicts that validates every input.
decode_step(r, input) ==
    IF \E k \in 1..Len(input) :
           input_model_validate(r.task.input, input[k]).raised
    THEN Fail(r, "ValidationError")
    ELSE [Advance(r, "Processing") EXCEPT
             !.models = [k \in 1..Len(input) |->
                            input_model_validate(r.task.input, input[k]).value]]

\* self.process(...) of the typed task, with the batch decoded again when
\* the task raises (a mutant).
process_step_retry(r) ==
    LET result == Task_process(r.task, r.models)
    IN  IF result.status # "ok" THEN Advance(r, "Decoding")
        ELSE [Advance(r, "Encoding") EXCEPT !.outputs = result.output]

\* self.process(...) of the typed task.
process_step(r) ==
    LET result == Task_process(r.task, r.models)
    IN  IF result.status # "ok" THEN Fail(r, result.status)
        ELSE [Advance(r, "Encoding") EXCEPT !.outputs = result.output]

\* output.model_dump() of every output, then model_copy and the return.
encode_step(r, self) ==
    [Advance(r, "Done") EXCEPT
        !.returned = model_copy(self,
                         [k \in 1..Len(r.outputs) |->
                             output_model_dump(r.outputs[k])])]

InitStages == Init

\* payload.execute(name, task_class) is called and constructs its task, or
\* raises before it does.
ExCall(name, task_class) ==
    /\ run.pipeline = "none"
    /\ run' = execute_call(item_collection, name, task_class)
    /\ UNCHANGED <<store, load, proc, stamp, assign, item_collection, ret,
                   task_object, dirs>>

\* task.process_dicts(self.features) is called.
ExBeginDecode ==
    /\ run.pipeline = "execute"
    /\ run.stage = "Constructed"
    /\ run' = Advance(run, "Decoding")
    /\ UNCHANGED <<store, load, proc, stamp, assign, item_collection, ret,
                   task_object, dirs>>

\* Every feature is validated against the input shape.
ExDecode ==
    /\ run.pipeline = "execute"
    /\ run.stage = "Decoding"
    /\ run' = decode_step(run, item_collection.features)
    /\ UNCHANGED <<store, load, proc, stamp, assign, item_collection, ret,
                   task_object, dirs>>

\* The task processes the decoded batch.
ExProcess ==
    /\ run.pipeline = "execute"
    /\ run.stage = "Processing"
    /\ run' = process_step(run)
    /\ UNCHANGED <<store, load, proc, stamp, assign, item_collection, ret,
                   task_object, dirs>>

\* The outputs are dumped and the new payload is returned.
ExEncode ==
    /\ run.pipeline = "execute"
    /\ run.stage = "Encoding"
    /\ run' = encode_step(run, item_collection)
    /\ UNCHANGED <<store, load, proc, stamp, assign, item_collection, ret,
                   task_object, dirs>>

\* cls.handler(payload, **kwargs) is called and constructs its task, or the
\* constructor raises FailedValidation (line 189).
HCall(cls, kwargs, valid) ==
    /\ run.pipeline = "none"
    /\ \E c \in Task_init(kwargs, valid, dirs) :
          /\ task_object' = c.task
          /\ dirs' = c.dirs
          /\ run' = LET r == NewRun("handler", cls.name, "Task", cls,
                                    item_collection)
                    IN  IF c.raised THEN Fail(r, "FailedValidation")
                        ELSE Advance(r, "Constructed")
    /\ UNCHANGED <<store, load, proc, stamp, assign, item_collection, ret>>

\* task.process(**task.parameters) is called (line 191).
HBeginProcess ==
    /\ run.pipeline = "handler"
    /\ run.stage = "Constructed"
    /\ run' = Advance(run, "Processing")
    /\ UNCHANGED <<store, load, proc, stamp, assign, item_collection, ret,
                   task_object, dirs>>

\* task.process returns its items, or raises; add_software_version is
\* called on what it returned (lines 191-192).
HProcess(behaviour) ==
    /\ run.pipeline = "handler"
    /\ run.stage = "Processing"
    /\ run' = IF item_collection.process.tasks[run.name].kind = "list"
              THEN Fail(run, "TypeError")
              ELSE IF behaviour = "raise" THEN Fail(run, "TaskError")
              ELSE [Advance(run, "ProvenanceStamped") EXCEPT
                       !.items = item_collection.features,
                       !.aliased = (behaviour = "same")]
    /\ UNCHANGED <<store, load, proc, stamp, assign, item_collection, ret,
                   task_object, dirs>>

\* add_software_version stamps the items in place and the handler stores
\* them in the payload, or an item without "stac_extensions" raises
\* KeyError; assign_collections is called (lines 192-193).
HStamp ==
    /\ run.pipeline = "handler"
    /\ run.stage = "ProvenanceStamped"
    /\ \E r \in add_software_version(run.cls, run.items) :
          IF r.raised
          THEN /\ run' = [Fail(run, "KeyError") EXCEPT !.items = r.items]
               /\ item_collection' =
                     IF run.aliased
                     THEN [item_collection EXCEPT !.features = r.items]
                     ELSE item_collection
          ELSE /\ run' = [Advance(run, "CollectionAssigned") EXCEPT
                             !.items = r.items]
               /\ item_collection' =
                     [item_collection EXCEPT !.features = r.items]
    /\ UNCHANGED <<store, load, proc, stamp, assign, ret, task_object, dirs>>

\* assign_collections relabels the items, stac.json is written to the work
\* directory and the payload is returned, or the write raises
\* (lines 193-196).
HAssign(written) ==
    /\ run.pipeline = "handler"
    /\ run.stage = "CollectionAssigned"
    /\ LET after == [item_collection EXCEPT !.features =
                        assign_collections(item_collection.features,
                            item_collection.process.collections)]
       IN  /\ item_collection' = after
           /\ IF written
              THEN /\ dirs' = [dirs EXCEPT ![task_object.workdir].stac_json =
                                  json_dumps(after)]
                   /\ run' = [Advance(run, "Done") EXCEPT !.returned = after]
              ELSE /\ dirs' = dirs
                   /\ run' = Fail(run, "OSError")
    /\ UNCHANGED <<store, load, proc, stamp, assign, ret, task_object>>

\* The handler has returned or raised, and its task is finalised.
HTaskDel ==
    /\ run.pipeline = "handler"
    /\ run.stage \in {"Done", "Failed"}
    /\ TaskDel

NextStages ==
    \/ \E name \in TaskNames, task_class \in ExecTaskClasses \cup {None} :
          ExCall(name, task_class)
    \/ ExBeginDecode
    \/ ExDecode
    \/ ExProcess
    \/ ExEncode
    \/ \E cls \in TaskClasses, kwargs \in Kwargs, valid \in BOOLEAN :
          HCall(cls, kwargs, valid)
    \/ HBeginProcess
    \/ \E behaviour \in Behaviours : HProcess(behaviour)
    \/ HStamp
    \/ \E written \in BOOLEAN : HAssign(written)
    \/ HTaskDel

SpecStages == InitStages /\ [][NextStages]_vars

IsPrefix(t, path) ==
    /\ Len(t) <= Len(path)
    /\ \A k \in 1..Len(t) : t[k] = path[k]

Front(t) == SubSeq(t, 1, Len(t) - 1)

\* The stages entered so far are an initial part of `path`, or such a part
\* followed by Failed, which is then entered before the first stage or from
\* one of the stages of `failing`.
Follows(t, path, failing) ==
    IF t[Len(t)] = "Failed"
    THEN /\ IsPrefix(Front(t), path)
         /\ Front(t) = <<>> \/ Front(t)[Len(t) - 1] \in failing
    ELSE IsPrefix(t, path)

ExecutePath == <<"Constructed", "Decoding", "Processing", "Encoding", "Done">>
HandlerPath == <<"Constructed", "Processing", "ProvenanceStamped",
                 "CollectionAssigned", "Done">>

StagesAgreeWithCalls ==
    /\ (run.pipeline = "execute" /\ run.stage \in {"Done", "Failed"}) =>
          LET r == execute(run.before, run.name, run.task_class)
          IN  /\ r.returned = run.returned
              /\ (r.status = "ok") = (run.stage = "Done")
              /\ r.status # "ok" => r.status = run.error
    /\ (run.pipeline = "handler" /\ run.stage = "Done") =>
          \E kwargs \in Kwargs, fs \in {[d \in WorkDirs |-> NoDir]} :
              \E r \in handler(run.cls, run.before, kwargs, TRUE, "same", fs) :
                  r.status = "ok" /\ r.returned = run.returned

====
